---- MODULE Spec2Model ----
(***************************************************************************)
(* Model of the agent tool layer: the tool wrappers of agent_simple.py,    *)
(* the Lambda, DynamoDB and API Gateway adapters under agent/tools, and    *)
(* the part of the services they call that decides what the adapters       *)
(* return (a key-value table store, a function registry, an HTTP           *)
(* endpoint).  Python strings that the code builds or parses are           *)
(* sequences of one-character strings; a Python dict whose order matters   *)
(* is a sequence of <<key, value>> pairs with distinct keys.               *)
(***************************************************************************)
EXTENDS Integers, Sequences, FiniteSets, TLC

VARIABLES db, functions, last, prev, ncalls

vars == <<db, functions, last, prev, ncalls>>

(* ------------------------------ bounds -------------------------------- *)

\* Tool calls the agent loop issues within the one request that is modelled.
MaxCalls == 2
\* Fields of an `updates` mapping.
MaxFields == 2
\* Functions deployed in the account.
MaxFunctions == 3
\* Functions the compute service returns per page of a listing.
PageSize == 2

(* ------------------------------ strings ------------------------------- *)

Range(s) == {s[i] : i \in 1..Len(s)}

RECURSIVE Join(_, _)
\* sep.join(parts)
Join(parts, sep) ==
  IF parts = << >> THEN << >>
  ELSE IF Len(parts) = 1 THEN parts[1]
  ELSE parts[1] \o sep \o Join(Tail(parts), sep)

RECURSIVE Split(_, _)
\* s.split(c) for a one-character separator c
Split(s, c) ==
  IF \A i \in 1..Len(s) : s[i] # c THEN <<s>>
  ELSE LET i == CHOOSE j \in 1..Len(s) : s[j] = c /\ \A k \in 1..(j - 1) : s[k] # c
       IN  <<SubSeq(s, 1, i - 1)>> \o Split(SubSeq(s, i + 1, Len(s)), c)

RECURSIVE Strip(_)
\* s.strip(" ")
Strip(s) ==
  IF s = << >> THEN s
  ELSE IF Head(s) = " " THEN Strip(Tail(s))
  ELSE IF s[Len(s)] = " " THEN Strip(SubSeq(s, 1, Len(s) - 1))
  ELSE s

StartsWith(s, p) == Len(s) >= Len(p) /\ SubSeq(s, 1, Len(p)) = p

Letters == {"a", "b", "d", "e", "i", "m", "n", "v"}
Digits == {"0", "1", "2", "3", "4", "5", "6", "7", "8", "9"}

DigitVal(c) ==
  CASE c = "0" -> 0 [] c = "1" -> 1 [] c = "2" -> 2 [] c = "3" -> 3 [] c = "4" -> 4
    [] c = "5" -> 5 [] c = "6" -> 6 [] c = "7" -> 7 [] c = "8" -> 8 [] c = "9" -> 9

DigitChar(n) ==
  CASE n = 0 -> "0" [] n = 1 -> "1" [] n = 2 -> "2" [] n = 3 -> "3" [] n = 4 -> "4"
    [] n = 5 -> "5" [] n = 6 -> "6" [] n = 7 -> "7" [] n = 8 -> "8" [] n = 9 -> "9"

(* ------------------------- Python values, JSON ------------------------ *)

\* Python values are tagged tuples: <<"None">>, <<"int", n>>, <<"bool", b>>,
\* <<"str", chars>> and <<"dict", pairs>>, pairs a sequence of <<key chars, value>>.
None == <<"None">>
PyInt(n) == <<"int", n>>
PyStr(s) == <<"str", s>>
PyDict(pairs) == <<"dict", pairs>>

RECURSIVE IntToStr(_)
\* str(n) for n >= 0
IntToStr(n) == IF n < 10 THEN <<DigitChar(n)>> ELSE IntToStr(n \div 10) \o <<DigitChar(n % 10)>>

RECURSIVE StrToInt(_)
\* int(s) for a non-empty string of digits
StrToInt(s) ==
  IF Len(s) = 1 THEN DigitVal(s[1])
  ELSE 10 * StrToInt(SubSeq(s, 1, Len(s) - 1)) + DigitVal(s[Len(s)])

RECURSIVE dumps(_)
RECURSIVE DumpPairs(_)
\* the members of a dict, each rendered "key": value
DumpPairs(pairs) ==
  IF pairs = << >> THEN << >>
  ELSE <<(<<"\"">> \o pairs[1][1] \o <<"\"", ":", " ">> \o dumps(pairs[1][2]))>>
       \o DumpPairs(Tail(pairs))

\* json.dumps(v), with the default separators ", " and ": "
dumps(v) ==
  CASE v[1] = "None" -> <<"n", "u", "l", "l">>
    [] v[1] = "bool" -> IF v[2] THEN <<"t", "r", "u", "e">> ELSE <<"f", "a", "l", "s", "e">>
    [] v[1] = "int"  -> IntToStr(v[2])
    [] v[1] = "str"  -> <<"\"">> \o v[2] \o <<"\"">>
    [] v[1] = "dict" -> <<"{">> \o Join(DumpPairs(v[2]), <<",", " ">>) \o <<"}">>

Fail == [ok |-> FALSE, val |-> None, next |-> 0]
Ok(v, n) == [ok |-> TRUE, val |-> v, next |-> n]

RECURSIVE SkipWs(_, _)
SkipWs(s, i) == IF i <= Len(s) /\ s[i] = " " THEN SkipWs(s, i + 1) ELSE i

RECURSIVE RunEnd(_, _, _)
\* the first index >= i whose character is outside `chars`
RunEnd(s, i, chars) == IF i <= Len(s) /\ s[i] \in chars THEN RunEnd(s, i + 1, chars) ELSE i

Literal(s, i, word) == i + Len(word) - 1 <= Len(s) /\ SubSeq(s, i, i + Len(word) - 1) = word

\* a JSON string starting at i (no escapes)
ParseString(s, i) ==
  IF i > Len(s) \/ s[i] # "\"" THEN Fail
  ELSE LET j == RunEnd(s, i + 1, Letters \cup Digits \cup {" ", "_"})
       IN  IF j <= Len(s) /\ s[j] = "\"" THEN Ok(SubSeq(s, i + 1, j - 1), j + 1) ELSE Fail

\* dict assignment d[k] = v: a repeated key keeps its place and takes the new value
PutPair(pairs, k, v) ==
  IF \E n \in 1..Len(pairs) : pairs[n][1] = k
  THEN [n \in 1..Len(pairs) |-> IF pairs[n][1] = k THEN <<k, v>> ELSE pairs[n]]
  ELSE Append(pairs, <<k, v>>)

RECURSIVE ParseValue(_, _)
RECURSIVE ParseMembers(_, _, _)
\* the members of an object from i on, up to and including the closing brace
ParseMembers(s, i, acc) ==
  LET k == ParseString(s, SkipWs(s, i))
      c == SkipWs(s, k.next)
  IN  IF ~k.ok \/ c > Len(s) \/ s[c] # ":" THEN Fail
      ELSE LET v == ParseValue(s, SkipWs(s, c + 1))
               e == SkipWs(s, v.next)
           IN  IF ~v.ok \/ e > Len(s) THEN Fail
               ELSE IF s[e] = "}" THEN Ok(PyDict(PutPair(acc, k.val, v.val)), e + 1)
               ELSE IF s[e] = "," THEN ParseMembers(s, e + 1, PutPair(acc, k.val, v.val))
               ELSE Fail

\* one JSON value starting at i
ParseValue(s, i) ==
  IF i > Len(s) THEN Fail
  ELSE IF Literal(s, i, <<"n", "u", "l", "l">>) THEN Ok(None, i + 4)
  ELSE IF Literal(s, i, <<"t", "r", "u", "e">>) THEN Ok(<<"bool", TRUE>>, i + 4)
  ELSE IF Literal(s, i, <<"f", "a", "l", "s", "e">>) THEN Ok(<<"bool", FALSE>>, i + 5)
  ELSE IF s[i] \in Digits
       THEN LET j == RunEnd(s, i, Digits) IN Ok(PyInt(StrToInt(SubSeq(s, i, j - 1))), j)
  ELSE IF s[i] = "\"" THEN LET r == ParseString(s, i) IN
                             IF r.ok THEN Ok(PyStr(r.val), r.next) ELSE Fail
  ELSE IF s[i] = "{"
       THEN LET j == SkipWs(s, i + 1)
            IN  IF j <= Len(s) /\ s[j] = "}" THEN Ok(PyDict(<< >>), j + 1)
                ELSE ParseMembers(s, i + 1, << >>)
  ELSE Fail

\* json.loads(text): the decoded value, or JSONDecodeError (empty text, text that is
\* no JSON value, text after the value)
loads(text) ==
  LET r == ParseValue(text, SkipWs(text, 1))
  IN  IF r.ok /\ SkipWs(text, r.next) > Len(text)
      THEN [ok |-> TRUE, val |-> r.val]
      ELSE [ok |-> FALSE, val |-> None]

(* --------------------------- Python helpers --------------------------- *)

\* d.get(k, default) of a mapping held as a function
Get(d, k, default) == IF k \in DOMAIN d THEN d[k] ELSE default

HasKey(pairs, k) == \E n \in 1..Len(pairs) : pairs[n][1] = k

Lookup(pairs, k) == pairs[CHOOSE n \in 1..Len(pairs) : pairs[n][1] = k][2]

\* how a call ends: it returns a value, or an exception leaves it
Return(v) == [kind |-> "return", err |-> "none", value |-> v]
Raise(e) == [kind |-> "raise", err |-> e, value |-> None]

\* what the service does to a request: it serves it, or the call fails (transport,
\* credentials, permissions, throttling) with a client error
Faults == {"none", "ClientError"}

(* --------------------------- table storage ---------------------------- *)

Tables == {"t1", "t2"}
\* the tables' hash key attribute and the values it takes
KeyAttr == <<"i", "d">>
KeyValues == {1, 2}
Values == {1, 2}
\* the other attributes of a row; "name" is a reserved word of the expression syntax
FieldA == <<"a">>
FieldB == <<"b">>
FieldName == <<"n", "a", "m", "e">>
\* the fields of the items that create_item is given, and of updates mappings
ItemFields == {FieldA}
UpdateFields == {FieldA, FieldB, FieldName}

\* no row, and the empty mapping {}
NoRow == << >>

\* a key mapping {"id": n}
KeyOf(n) == [a \in {KeyAttr} |-> n]

\* the rows create_item is given: the key and any of the item fields
Rows == UNION {[{KeyAttr} \cup F -> Values] : F \in SUBSET ItemFields}

Lower(c) ==
  CASE c = "A" -> "a" [] c = "E" -> "e" [] c = "M" -> "m" [] c = "N" -> "n"
    [] c = "S" -> "s" [] c = "T" -> "t" [] OTHER -> c

\* reserved words of the expression syntax (a few of the service's list), lower case
ReservedWords == {<<"n", "a", "m", "e">>, <<"s", "e", "t">>, <<"a", "d", "d">>}

IsReserved(path) == [i \in 1..Len(path) |-> Lower(path[i])] \in ReservedWords

NameChars == Letters \cup Digits \cup {"_"}

IsName(s) == s # << >> /\ Range(s) \subseteq NameChars

IsPlaceholder(s) == Len(s) >= 2 /\ s[1] = ":" /\ IsName(Tail(s))

\* "path = :placeholder" as [ok, path, operand]
ParseAssignment(clause) ==
  LET parts == Split(clause, "=")
  IN  IF Len(parts) # 2 THEN [ok |-> FALSE, path |-> << >>, operand |-> << >>]
      ELSE [ok |-> IsName(Strip(parts[1])) /\ IsPlaceholder(Strip(parts[2])),
            path |-> Strip(parts[1]), operand |-> Strip(parts[2])]

\* the assignments of "SET a = :x, b = :y"; ok is FALSE for text that is no SET
\* expression with at least one assignment
ParseUpdateExpression(expr) ==
  LET set == <<"S", "E", "T", " ">>
      body == IF StartsWith(expr, set) THEN Strip(SubSeq(expr, 5, Len(expr))) ELSE << >>
      clauses == Split(body, ",")
      parsed == [n \in 1..Len(clauses) |-> ParseAssignment(clauses[n])]
  IN  [ok |-> StartsWith(expr, set) /\ body # << >> /\ \A n \in 1..Len(parsed) : parsed[n].ok,
       assignments |-> parsed]

\* Table.put_item: the row with the item's key becomes the item, whatever it was
table_put_item(table_name, Item, fault) ==
  IF fault # "none" THEN [err |-> fault, db |-> db]
  ELSE IF KeyAttr \notin DOMAIN Item THEN [err |-> "ValidationException", db |-> db]
  ELSE [err |-> "none", db |-> [db EXCEPT ![table_name][Item[KeyAttr]] = Item]]

\* Table.get_item: the response holds 'Item' only when a row has the key
table_get_item(table_name, Key, fault) ==
  IF fault # "none" THEN [err |-> fault, response |-> << >>]
  ELSE IF DOMAIN Key # {KeyAttr} THEN [err |-> "ValidationException", response |-> << >>]
  ELSE LET row == db[table_name][Key[KeyAttr]]
       IN  [err |-> "none",
            response |-> IF row = NoRow THEN [x \in {"ResponseMetadata"} |-> << >>]
                         ELSE [x \in {"Item", "ResponseMetadata"} |->
                                 IF x = "Item" THEN row ELSE << >>]]

\* Table.update_item: the expression is validated as a whole before anything is
\* written; a rejected request writes nothing
table_update_item(table_name, Key, UpdateExpression, ExpressionAttributeValues, fault) ==
  LET p == ParseUpdateExpression(UpdateExpression)
      as == p.assignments
      paths == {as[n].path : n \in 1..Len(as)}
      valid ==
        /\ DOMAIN Key = {KeyAttr}
        /\ ExpressionAttributeValues # << >>
        /\ p.ok
        /\ \A n \in 1..Len(as) : ~IsReserved(as[n].path) /\ as[n].path # KeyAttr
        /\ \A n \in 1..Len(as) : HasKey(ExpressionAttributeValues, as[n].operand)
        /\ \A n \in 1..Len(ExpressionAttributeValues) :
              \E m \in 1..Len(as) : as[m].operand = ExpressionAttributeValues[n][1]
        /\ \A n, m \in 1..Len(as) : as[n].path = as[m].path => n = m
      old == db[table_name][Key[KeyAttr]]
      base == IF old = NoRow THEN Key ELSE old
      assigned(a) == Lookup(ExpressionAttributeValues,
                            as[CHOOSE n \in 1..Len(as) : as[n].path = a].operand)
      new == [a \in DOMAIN base \cup paths |-> IF a \in paths THEN assigned(a) ELSE base[a]]
  IN  IF fault # "none" THEN [err |-> fault, db |-> db]
      ELSE IF ~valid THEN [err |-> "ValidationException", db |-> db]
      ELSE [err |-> "none", db |-> [db EXCEPT ![table_name][Key[KeyAttr]] = new]]

\* Table.query with a key condition "id = :v": the rows whose key is the bound value
table_query(table_name, KeyConditionExpression, ExpressionAttributeValues, fault) ==
  LET c == ParseAssignment(KeyConditionExpression)
      valid == /\ c.ok /\ c.path = KeyAttr
               /\ Len(ExpressionAttributeValues) = 1
               /\ HasKey(ExpressionAttributeValues, c.operand)
      k == Lookup(ExpressionAttributeValues, c.operand)
      row == IF k \in KeyValues THEN db[table_name][k] ELSE NoRow
  IN  IF fault # "none" THEN [err |-> fault, response |-> << >>]
      ELSE IF ~valid THEN [err |-> "ValidationException", response |-> << >>]
      ELSE [err |-> "none",
            response |-> [x \in {"Items", "Count"} |->
                            IF x = "Count" THEN (IF row = NoRow THEN 0 ELSE 1)
                            ELSE IF row = NoRow THEN << >> ELSE <<row>>]]

(* -------------------------- DynamoDB adapter -------------------------- *)

\* what an adapter call did: the requests it issued, in order, the table store it
\* left, how it ended, and how many times it ran the JSON decoder
Did(requests, store, outcome) ==
  [requests |-> requests, db |-> store, outcome |-> outcome, decodes |-> 0]

\* create_item as a conditional write: an existing row is kept and the call fails
create_item_if_absent(table_name, item, fault) ==
  LET exists == KeyAttr \in DOMAIN item /\ db[table_name][item[KeyAttr]] # NoRow
      r == IF exists THEN [err |-> "ConditionalCheckFailedException", db |-> db]
           ELSE table_put_item(table_name, item, fault)
  IN  Did(<<[op |-> "put_item", TableName |-> table_name, Item |-> item]>>, r.db,
          IF r.err # "none" THEN Raise(r.err)
          ELSE Return(<<"Item created in ", table_name>>))

create_item(table_name, item, fault) ==
  LET r == table_put_item(table_name, item, fault)
  IN  Did(<<[op |-> "put_item", TableName |-> table_name, Item |-> item]>>, r.db,
          IF r.err # "none" THEN Raise(r.err)
          ELSE Return(<<"Item created in ", table_name>>))

\* read_item with response['Item'] in place of response.get('Item', {})
read_item_subscript(table_name, key, fault) ==
  LET r == table_get_item(table_name, key, fault)
  IN  Did(<<[op |-> "get_item", TableName |-> table_name, Key |-> key]>>, db,
          IF r.err # "none" THEN Raise(r.err)
          ELSE IF "Item" \in DOMAIN r.response THEN Return(r.response["Item"])
          ELSE Raise("KeyError"))

read_item(table_name, key, fault) ==
  LET r == table_get_item(table_name, key, fault)
  IN  Did(<<[op |-> "get_item", TableName |-> table_name, Key |-> key]>>, db,
          IF r.err # "none" THEN Raise(r.err)
          ELSE Return(Get(r.response, "Item", << >>)))

\* update_expr with one placeholder, ":v", shared by every field
update_expr_shared_placeholder(updates) ==
  <<"S", "E", "T", " ">>
    \o Join([n \in 1..Len(updates) |-> updates[n][1] \o <<" ", "=", " ", ":", "v">>],
            <<",", " ">>)

\* "SET " + ", ".join([f"{k} = :{k}" for k in updates.keys()])
update_expr(updates) ==
  <<"S", "E", "T", " ">>
    \o Join([n \in 1..Len(updates) |-> updates[n][1] \o <<" ", "=", " ", ":">> \o updates[n][1]],
            <<",", " ">>)

\* {f":{k}": v for k, v in updates.items()}
expr_attr_values(updates) ==
  [n \in 1..Len(updates) |-> <<(<<":">> \o updates[n][1]), updates[n][2]>>]

\* update_item that catches the service's error and reports success
update_item_swallow(table_name, key, updates, fault) ==
  LET r == table_update_item(table_name, key, update_expr(updates),
                             expr_attr_values(updates), fault)
  IN  Did(<<[op |-> "update_item", TableName |-> table_name, Key |-> key,
             UpdateExpression |-> update_expr(updates),
             ExpressionAttributeValues |-> expr_attr_values(updates)]>>, r.db,
          Return(<<"Item updated in ", table_name>>))

\* update_item that returns early, without a request, when updates is empty
update_item_guarded(table_name, key, updates, fault) ==
  LET r == table_update_item(table_name, key, update_expr(updates),
                             expr_attr_values(updates), fault)
  IN  IF updates = << >> THEN Did(<< >>, db, Return(<<"Item updated in ", table_name>>))
      ELSE Did(<<[op |-> "update_item", TableName |-> table_name, Key |-> key,
                  UpdateExpression |-> update_expr(updates),
                  ExpressionAttributeValues |-> expr_attr_values(updates)]>>, r.db,
               IF r.err # "none" THEN Raise(r.err)
               ELSE Return(<<"Item updated in ", table_name>>))

update_item(table_name, key, updates, fault) ==
  LET r == table_update_item(table_name, key, update_expr(updates),
                             expr_attr_values(updates), fault)
  IN  Did(<<[op |-> "update_item", TableName |-> table_name, Key |-> key,
             UpdateExpression |-> update_expr(updates),
             ExpressionAttributeValues |-> expr_attr_values(updates)]>>, r.db,
          IF r.err # "none" THEN Raise(r.err)
          ELSE Return(<<"Item updated in ", table_name>>))

\* query_items that issues the request a second time when the first fails
query_items_retry(table_name, key_condition, expr_attr_values_, fault) ==
  LET r == table_query(table_name, key_condition, expr_attr_values_, fault)
      request == [op |-> "query", TableName |-> table_name,
                  KeyConditionExpression |-> key_condition,
                  ExpressionAttributeValues |-> expr_attr_values_]
  IN  Did(IF r.err # "none" THEN <<request, request>> ELSE <<request>>, db,
          IF r.err # "none" THEN Raise(r.err)
          ELSE Return(Get(r.response, "Items", << >>)))

query_items(table_name, key_condition, expr_attr_values_, fault) ==
  LET r == table_query(table_name, key_condition, expr_attr_values_, fault)
  IN  Did(<<[op |-> "query", TableName |-> table_name,
             KeyConditionExpression |-> key_condition,
             ExpressionAttributeValues |-> expr_attr_values_]>>, db,
          IF r.err # "none" THEN Raise(r.err)
          ELSE Return(Get(r.response, "Items", << >>)))

(* --------------------------- compute service -------------------------- *)

FunctionPool == <<"f1", "f2", "f3", "f4", "f5">>
\* the function names a caller passes: deployed ones and one that never is
FunctionNames == {"f1", "f2", "f9"}
InvocationTypes == {"RequestResponse", "Event", "DryRun"}

\* the account with its first n functions deployed, in the service's listing order
Deployed(n) ==
  [i \in 1..n |-> [FunctionName |-> FunctionPool[i], Runtime |-> "python3.12",
                   Handler |-> IF i % 2 = 1 THEN "echo" ELSE "none"]]

IsDeployed(name) == \E i \in 1..Len(functions) : functions[i].FunctionName = name

Configuration(name) == functions[CHOOSE i \in 1..Len(functions) : functions[i].FunctionName = name]

\* what the function's handler returns for an event, serialised by the runtime
RunHandler(name, event) ==
  IF Configuration(name).Handler = "echo" THEN dumps(event) ELSE dumps(None)

\* Lambda.invoke: a synchronous invocation answers 200 with the handler's result;
\* an asynchronous one answers 202 and a dry run 204, both with an empty payload
lambda_client_invoke(FunctionName, InvocationType, Payload, fault) ==
  IF fault # "none" THEN [err |-> fault, response |-> << >>]
  ELSE IF ~IsDeployed(FunctionName) THEN [err |-> "ResourceNotFoundException", response |-> << >>]
  ELSE IF InvocationType \notin InvocationTypes \/ ~loads(Payload).ok
       THEN [err |-> "ValidationException", response |-> << >>]
  ELSE [err |-> "none",
        response |->
          CASE InvocationType = "RequestResponse" ->
                 [StatusCode |-> 200, Payload |-> RunHandler(FunctionName, loads(Payload).val)]
            [] InvocationType = "Event" -> [StatusCode |-> 202, Payload |-> << >>]
            [] InvocationType = "DryRun" -> [StatusCode |-> 204, Payload |-> << >>]]

\* Lambda.get_function
lambda_client_get_function(FunctionName, fault) ==
  IF fault # "none" THEN [err |-> fault, response |-> << >>]
  ELSE IF ~IsDeployed(FunctionName) THEN [err |-> "ResourceNotFoundException", response |-> << >>]
  ELSE [err |-> "none",
        response |-> [Configuration |-> Configuration(FunctionName),
                      Code |-> [RepositoryType |-> "S3",
                                Location |-> <<"https://code/", FunctionName>>]]]

\* Lambda.list_functions: one page of at most PageSize functions from position
\* Marker on, and NextMarker when more follow
lambda_client_list_functions(Marker, fault) ==
  LET n == Len(functions)
      end == IF Marker + PageSize < n THEN Marker + PageSize ELSE n
      page == SubSeq(functions, Marker + 1, end)
  IN  IF fault # "none" THEN [err |-> fault, response |-> << >>]
      ELSE [err |-> "none",
            response |-> IF end < n
                         THEN [x \in {"Functions", "NextMarker"} |->
                                 IF x = "Functions" THEN page ELSE end]
                         ELSE [x \in {"Functions"} |-> page]]

(* --------------------------- Lambda adapter --------------------------- *)

\* an adapter call that also ran the JSON decoder n times
Decoding(did, n) == [did EXCEPT !.decodes = n]

invoke_lambda(function_name, payload, invocation_type, fault) ==
  LET r == lambda_client_invoke(function_name, invocation_type, dumps(payload), fault)
      request == [op |-> "invoke", FunctionName |-> function_name,
                  InvocationType |-> invocation_type, Payload |-> dumps(payload)]
  IN  IF r.err # "none" THEN Did(<<request>>, db, Raise(r.err))
      ELSE LET d == loads(r.response.Payload)
           IN  Decoding(Did(<<request>>, db,
                            IF d.ok THEN Return(d.val) ELSE Raise("JSONDecodeError")), 1)

get_lambda_code(function_name, fault) ==
  LET r == lambda_client_get_function(function_name, fault)
  IN  Did(<<[op |-> "get_function", FunctionName |-> function_name]>>, db,
          IF r.err # "none" THEN Raise(r.err) ELSE Return(r.response.Code.Location))

RECURSIVE ListFrom(_, _)
\* the requests and names of a listing that follows NextMarker to the last page
ListFrom(Marker, fault) ==
  LET r == lambda_client_list_functions(Marker, fault)
      request == [op |-> "list_functions", Marker |-> Marker]
      names == [i \in 1..Len(r.response["Functions"]) |-> r.response["Functions"][i].FunctionName]
  IN  IF r.err # "none" THEN [requests |-> <<request>>, err |-> r.err, names |-> << >>]
      ELSE IF "NextMarker" \in DOMAIN r.response
           THEN LET rest == ListFrom(r.response["NextMarker"], fault)
                IN  [requests |-> <<request>> \o rest.requests, err |-> rest.err,
                     names |-> names \o rest.names]
      ELSE [requests |-> <<request>>, err |-> "none", names |-> names]

\* list_lambdas that paginates
list_lambdas_paginated(fault) ==
  LET r == ListFrom(0, fault)
  IN  Did(r.requests, db, IF r.err # "none" THEN Raise(r.err) ELSE Return(r.names))

list_lambdas(fault) ==
  LET r == lambda_client_list_functions(0, fault)
  IN  Did(<<[op |-> "list_functions", Marker |-> 0]>>, db,
          IF r.err # "none" THEN Raise(r.err)
          ELSE Return([i \in 1..Len(r.response["Functions"]) |->
                         r.response["Functions"][i].FunctionName]))

(* ------------------------- API Gateway adapter ------------------------ *)

Urls == {"https://api/a", "https://api/b"}
Methods == {"POST"}
\* response texts: empty, a JSON value, and text that is no JSON
Texts == {<< >>, <<"{", "}">>, <<"e", "r", "r">>}

\* what the endpoint does to a request: it answers 200 with some text or 204 with
\* none, or the connection fails
Answers == [err : {"none"}, status_code : {200}, text : Texts]
             \cup {[err |-> "none", status_code |-> 204, text |-> << >>],
                   [err |-> "ConnectionError", status_code |-> 0, text |-> << >>]}

\* requests.request: the response the endpoint gives to this one request
requests_request(method, url, headers, params, json, answer) ==
  [err |-> answer.err, response |-> [status_code |-> answer.status_code, text |-> answer.text]]

\* execute_api that decodes the response text whether or not it is empty
execute_api_always_json(api_url, method, headers, params, body, answer) ==
  LET r == requests_request(method, api_url, headers, params, body, answer)
      request == [op |-> "request", method |-> method, url |-> api_url,
                  headers |-> headers, params |-> params, json |-> body]
      d == loads(r.response.text)
  IN  IF r.err # "none" THEN Did(<<request>>, db, Raise(r.err))
      ELSE Decoding(Did(<<request>>, db,
                        IF d.ok THEN Return([status_code |-> r.response.status_code,
                                             body |-> d.val])
                        ELSE Raise("JSONDecodeError")), 1)

execute_api(api_url, method, headers, params, body, answer) ==
  LET r == requests_request(method, api_url, headers, params, body, answer)
      request == [op |-> "request", method |-> method, url |-> api_url,
                  headers |-> headers, params |-> params, json |-> body]
  IN  IF r.err # "none" THEN Did(<<request>>, db, Raise(r.err))
      ELSE IF r.response.text # << >>
           THEN LET d == loads(r.response.text)
                IN  Decoding(Did(<<request>>, db,
                                 IF d.ok THEN Return([status_code |-> r.response.status_code,
                                                      body |-> d.val])
                                 ELSE Raise("JSONDecodeError")), 1)
           ELSE Did(<<request>>, db,
                    Return([status_code |-> r.response.status_code, body |-> None]))

(* ----------------------- tool wrappers, registry ---------------------- *)

\* the default values of a definition's optional parameters
lambda_invoke_defaults == [invocation_type |-> "RequestResponse"]
invoke_lambda_defaults == [invocation_type |-> "RequestResponse"]
api_execute_defaults == [method |-> "GET", headers |-> None, params |-> None, body |-> None]
execute_api_defaults == [method |-> "GET", headers |-> None, params |-> None, body |-> None]

\* the value a call binds to parameter `name`: the caller's, or the default
Bind(kwargs, defaults, name) == IF name \in DOMAIN kwargs THEN kwargs[name] ELSE defaults[name]

lambda_invoke(function_name, payload, invocation_type, fault) ==
  invoke_lambda(function_name, payload, invocation_type, fault)

lambda_get_code(function_name, fault) == get_lambda_code(function_name, fault)

lambda_list(fault) == list_lambdas(fault)

dynamodb_create(table_name, item, fault) == create_item(table_name, item, fault)

dynamodb_read(table_name, key, fault) == read_item(table_name, key, fault)

dynamodb_update(table_name, key, updates, fault) == update_item(table_name, key, updates, fault)

dynamodb_query(table_name, key_condition, expr_attr_values_, fault) ==
  query_items(table_name, key_condition, expr_attr_values_, fault)

\* api_execute that hands headers and params to the adapter in each other's place
api_execute_swapped(api_url, method, headers, params, body, answer) ==
  execute_api(api_url, method, params, headers, body, answer)

api_execute(api_url, method, headers, params, body, answer) ==
  execute_api(api_url, method, headers, params, body, answer)

\* the tools run_agent hands to the agent
custom_tools ==
  <<"lambda_invoke", "lambda_get_code", "lambda_list",
    "dynamodb_create", "dynamodb_read", "dynamodb_update", "dynamodb_query",
    "api_execute">>

(* ------------------------------- inputs ------------------------------- *)

Payloads == {PyDict(<< >>), PyDict(<< <<FieldA, PyInt(1)>> >>)}

\* items to write: every row, and an item without the key attribute
Items == Rows \cup {[a \in {FieldA} |-> 1]}

\* `updates` mappings: up to MaxFields distinct fields, in insertion order
Updates ==
  {u \in UNION {[1..n -> UpdateFields \X Values] : n \in 0..MaxFields} :
     \A i, j \in 1..Len(u) : u[i][1] = u[j][1] => i = j}

\* key conditions: "id = :v", and a malformed one
KeyConditions == {<<"i", "d", " ", "=", " ", ":", "v">>, <<"i", "d", " ", "=">>}
ConditionValues == {<< >>} \cup {<< <<(<<":", "v">>), k>> >> : k \in KeyValues}

Headers == PyDict(<< <<(<<"a">>), PyStr(<<"b">>)>> >>)
Params == PyDict(<< <<(<<"n">>), PyInt(1)>> >>)
Body == PyDict(<< <<(<<"i", "d">>), PyInt(2)>> >>)

\* a keyword argument the caller may leave out
Optional(name, S) == {<< >>} \cup {[x \in {name} |-> v] : v \in S}

(* ------------------------------- state -------------------------------- *)

EmptyStore == [t \in Tables |-> [k \in KeyValues |-> NoRow]]

\* the store as the request finds it: one row, in table t1
SeededStore ==
  [EmptyStore EXCEPT !["t1"][1] = [x \in {KeyAttr, FieldA, FieldB} |->
                                     IF x = KeyAttr THEN 1 ELSE 2]]

NoCall == [tool |-> "none", kwargs |-> << >>, requests |-> << >>,
           outcome |-> Return(None), decodes |-> 0, env |-> "none"]

NoCreate == [table_name |-> "none", item |-> NoRow]

Init ==
  /\ db = SeededStore
  /\ functions = Deployed(MaxFunctions)
  /\ last = NoCall
  /\ prev = NoCreate
  /\ ncalls = 0

\* the agent may call `tool`: it holds no pending result, its loop goes on, and the
\* tool is registered
CanCall(tool) ==
  /\ last.tool = "none"
  /\ ncalls < MaxCalls
  /\ \E i \in 1..Len(custom_tools) : custom_tools[i] = tool

\* the agent calls `tool` with `kwargs`; `env` is what the service does to the
\* request, and `did` what the tool's adapter does.  `last` is the call whose result
\* the agent has yet to take back.
Call(tool, kwargs, env, did) ==
  /\ ncalls' = ncalls + 1
  /\ db' = did.db
  /\ last' = [tool |-> tool, kwargs |-> kwargs, requests |-> did.requests,
              outcome |-> did.outcome, decodes |-> did.decodes, env |-> env]
  /\ UNCHANGED <<functions, prev>>

\* the tool's result goes back to the agent, which may then call the next tool;
\* `prev` keeps what the call wrote when it was a create that returned
ReturnToAgent ==
  /\ last.tool # "none"
  /\ last' = NoCall
  /\ prev' = IF last.tool = "dynamodb_create" /\ last.outcome.kind = "return"
             THEN [table_name |-> last.kwargs.table_name, item |-> last.kwargs.item]
             ELSE NoCreate
  /\ UNCHANGED <<db, functions, ncalls>>

LambdaInvoke ==
  /\ CanCall("lambda_invoke")
  /\ \E f \in FunctionNames, p \in Payloads, o \in Optional("invocation_type", InvocationTypes),
        fault \in Faults :
       LET kwargs == [function_name |-> f, payload |-> p] @@ o
       IN  Call("lambda_invoke", kwargs, fault,
                lambda_invoke(kwargs.function_name, kwargs.payload,
                              Bind(kwargs, lambda_invoke_defaults, "invocation_type"), fault))

LambdaGetCode ==
  /\ CanCall("lambda_get_code")
  /\ \E f \in FunctionNames, fault \in Faults :
       LET kwargs == [function_name |-> f]
       IN  Call("lambda_get_code", kwargs, fault, lambda_get_code(kwargs.function_name, fault))

LambdaList ==
  /\ CanCall("lambda_list")
  /\ \E fault \in Faults : Call("lambda_list", << >>, fault, lambda_list(fault))

DynamodbCreate ==
  /\ CanCall("dynamodb_create")
  /\ \E t \in Tables, item \in Items, fault \in Faults :
       LET kwargs == [table_name |-> t, item |-> item]
       IN  Call("dynamodb_create", kwargs, fault,
                dynamodb_create(kwargs.table_name, kwargs.item, fault))

DynamodbRead ==
  /\ CanCall("dynamodb_read")
  /\ \E t \in Tables, k \in KeyValues, fault \in Faults :
       LET kwargs == [table_name |-> t, key |-> KeyOf(k)]
       IN  Call("dynamodb_read", kwargs, fault,
                dynamodb_read(kwargs.table_name, kwargs.key, fault))

DynamodbUpdate ==
  /\ CanCall("dynamodb_update")
  /\ \E t \in Tables, k \in KeyValues, u \in Updates, fault \in Faults :
       LET kwargs == [table_name |-> t, key |-> KeyOf(k), updates |-> u]
       IN  Call("dynamodb_update", kwargs, fault,
                dynamodb_update(kwargs.table_name, kwargs.key, kwargs.updates, fault))

DynamodbQuery ==
  /\ CanCall("dynamodb_query")
  /\ \E t \in Tables, c \in KeyConditions, v \in ConditionValues, fault \in Faults :
       LET kwargs == [table_name |-> t, key_condition |-> c, expr_attr_values |-> v]
       IN  Call("dynamodb_query", kwargs, fault,
                dynamodb_query(kwargs.table_name, kwargs.key_condition,
                               kwargs.expr_attr_values, fault))

ApiExecute ==
  /\ CanCall("api_execute")
  /\ \E url \in Urls, m \in Optional("method", Methods), h \in Optional("headers", {Headers}),
        p \in Optional("params", {Params}), b \in Optional("body", {Body}), answer \in Answers :
       LET kwargs == [api_url |-> url] @@ m @@ h @@ p @@ b
       IN  Call("api_execute", kwargs, answer,
                api_execute(kwargs.api_url,
                            Bind(kwargs, api_execute_defaults, "method"),
                            Bind(kwargs, api_execute_defaults, "headers"),
                            Bind(kwargs, api_execute_defaults, "params"),
                            Bind(kwargs, api_execute_defaults, "body"), answer))

Next ==
  \/ LambdaInvoke
  \/ LambdaGetCode
  \/ LambdaList
  \/ DynamodbCreate
  \/ DynamodbRead
  \/ DynamodbUpdate
  \/ DynamodbQuery
  \/ ApiExecute
  \/ ReturnToAgent

Spec == Init /\ [][Next]_vars

(* ------------------------------- claims ------------------------------- *)

\* the error, or "none", with which the service answers request `req` under `env`
ServiceError(req, env) ==
  CASE req.op = "put_item" -> table_put_item(req.TableName, req.Item, env).err
    [] req.op = "get_item" -> table_get_item(req.TableName, req.Key, env).err
    [] req.op = "update_item" ->
         table_update_item(req.TableName, req.Key, req.UpdateExpression,
                           req.ExpressionAttributeValues, env).err
    [] req.op = "query" ->
         table_query(req.TableName, req.KeyConditionExpression,
                     req.ExpressionAttributeValues, env).err
    [] req.op = "invoke" ->
         lambda_client_invoke(req.FunctionName, req.InvocationType, req.Payload, env).err
    [] req.op = "get_function" -> lambda_client_get_function(req.FunctionName, env).err
    [] req.op = "list_functions" -> lambda_client_list_functions(req.Marker, env).err
    [] req.op = "request" ->
         requests_request(req.method, req.url, req.headers, req.params, req.json, env).err

\* a step in which the agent calls `tool`
Calls(tool) == ncalls' = ncalls + 1 /\ last'.tool = tool

\* C1: read_item on a table and key that hold no row returns the empty mapping {}
\* and raises nothing of its own (an error leaves it only when the get_item request
\* itself fails, and then it is that error), and the tables are left as they were.
C1_ReadMissingReturnsEmpty ==
  [][(Calls("dynamodb_read")
        /\ db[last'.kwargs.table_name][last'.kwargs.key[KeyAttr]] = NoRow)
     => /\ db' = db
        /\ last'.outcome = IF last'.env = "none" THEN Return(<< >>) ELSE Raise(last'.env)]_vars

C1_Witness ==
  /\ last.tool = "dynamodb_read"
  /\ last.env = "none"
  /\ db[last.kwargs.table_name][last.kwargs.key[KeyAttr]] = NoRow
  /\ last.outcome = Return(<< >>)

\* whether mapping `row` holds every field of `item`, with the item's value
Superset(row, item) == \A a \in DOMAIN item : a \in DOMAIN row /\ row[a] = item[a]

\* the read that follows at once a create that returned, on the same table and
\* with the key of the item created
ReadsBackCreate ==
  /\ last.tool = "dynamodb_read"
  /\ prev # NoCreate
  /\ last.kwargs.table_name = prev.table_name
  /\ last.kwargs.key = KeyOf(prev.item[KeyAttr])

\* C2: a read_item that follows a create_item at once, with the key of the item,
\* returns a row holding every field the create wrote; and the create itself, when
\* its put_item request is served, overwrites whatever row had the key and returns
\* its confirmation without an error.
C2_CreateThenRead ==
  /\ [](ReadsBackCreate /\ last.env = "none"
          => last.outcome.kind = "return" /\ Superset(last.outcome.value, prev.item))
  /\ [][(Calls("dynamodb_create") /\ last'.env = "none"
           /\ KeyAttr \in DOMAIN last'.kwargs.item)
        => /\ last'.outcome = Return(<<"Item created in ", last'.kwargs.table_name>>)
           /\ db' = [db EXCEPT ![last'.kwargs.table_name][last'.kwargs.item[KeyAttr]]
                                  = last'.kwargs.item]]_vars

\* the row read back is the item created over the seeded row, which held field b
C2_Witness ==
  /\ ReadsBackCreate
  /\ last.env = "none"
  /\ prev.table_name = "t1"
  /\ prev.item = [x \in {KeyAttr, FieldA} |-> 1]
  /\ last.outcome = Return(prev.item)

\* the update request of the last call
UpdateRequest == last.requests[1]

\* C3: for a non-empty updates mapping the update expression holds exactly one
\* assignment "k = :k" per field k of updates and no other, distinct fields have
\* distinct placeholders, and the bound values hold exactly one entry ":k" per
\* field k, with the value updates[k].
C3_UpdateExpression ==
  (last.tool = "dynamodb_update" /\ last.kwargs.updates # << >>) =>
    LET u == last.kwargs.updates
        p == ParseUpdateExpression(UpdateRequest.UpdateExpression)
        as == p.assignments
        vals == UpdateRequest.ExpressionAttributeValues
    IN  /\ Len(last.requests) = 1
        /\ p.ok
        /\ Len(as) = Len(u)
        /\ \A n \in 1..Len(u) :
             \E m \in 1..Len(as) : as[m].path = u[n][1] /\ as[m].operand = <<":">> \o u[n][1]
        /\ \A n, m \in 1..Len(as) : n # m => as[n].operand # as[m].operand
        /\ Len(vals) = Len(u)
        /\ \A n \in 1..Len(u) :
             /\ HasKey(vals, <<":">> \o u[n][1])
             /\ Lookup(vals, <<":">> \o u[n][1]) = u[n][2]

C3_Witness ==
  /\ last.tool = "dynamodb_update"
  /\ last.kwargs.updates = << <<FieldA, 1>>, <<FieldB, 2>> >>
  /\ UpdateRequest.UpdateExpression
       = <<"S", "E", "T", " ", "a", " ", "=", " ", ":", "a", ",", " ", "b", " ", "=", " ", ":", "b">>
  /\ last.outcome.kind = "return"
  /\ db[last.kwargs.table_name][last.kwargs.key[KeyAttr]][FieldB] = 2

\* whether some field of `updates` is a reserved word
Collides(updates) == \E n \in 1..Len(updates) : IsReserved(updates[n][1])

\* C4: when a field of updates is a reserved word, update_item fails with the
\* service's error, never returns its confirmation, and writes nothing.
C4_ReservedWordFails ==
  [][(Calls("dynamodb_update") /\ Collides(last'.kwargs.updates))
     => /\ last'.outcome = Raise(IF last'.env = "none" THEN "ValidationException"
                                 ELSE last'.env)
        /\ db' = db]_vars

C4_Witness ==
  /\ last.tool = "dynamodb_update"
  /\ last.env = "none"
  /\ last.kwargs.updates = << <<FieldA, 1>>, <<FieldName, 2>> >>
  /\ last.outcome = Raise("ValidationException")
  /\ db[last.kwargs.table_name][last.kwargs.key[KeyAttr]]
       = [x \in {KeyAttr, FieldA, FieldB} |-> IF x = KeyAttr THEN 1 ELSE 2]

\* C5: for a response whose text is empty, execute_api returns the response's
\* status code with body None and raises nothing; the JSON decoder runs only on a
\* response whose text is not empty.
C5_EmptyBodyIsNone ==
  last.tool = "api_execute" =>
    /\ (last.env.err = "none" /\ last.env.text = << >>)
         => last.outcome = Return([status_code |-> last.env.status_code, body |-> None])
    /\ last.decodes > 0 => (last.env.err = "none" /\ last.env.text # << >>)

C5_Witness ==
  /\ last.tool = "api_execute"
  /\ last.env.err = "none"
  /\ last.env.text = << >>
  /\ last.outcome = Return([status_code |-> 204, body |-> None])
  /\ last.decodes = 0

\* the service operation each tool's adapter calls
ServiceOp(tool) ==
  CASE tool = "lambda_invoke" -> "invoke"
    [] tool = "lambda_get_code" -> "get_function"
    [] tool = "lambda_list" -> "list_functions"
    [] tool = "dynamodb_create" -> "put_item"
    [] tool = "dynamodb_read" -> "get_item"
    [] tool = "dynamodb_update" -> "update_item"
    [] tool = "dynamodb_query" -> "query"
    [] tool = "api_execute" -> "request"

\* C6: every adapter call issues exactly one request to its service; when that
\* request fails, the request's error leaves the adapter unchanged, with no second
\* request and no result value.
C6_OneRequestNoRetry ==
  last.tool # "none" =>
    /\ Len(last.requests) = 1
    /\ last.requests[1].op = ServiceOp(last.tool)
    /\ ServiceError(last.requests[1], last.env) # "none"
         => last.outcome = Raise(ServiceError(last.requests[1], last.env))

C6_Witness ==
  /\ last.tool = "dynamodb_query"
  /\ last.env = "none"
  /\ Len(last.requests) = 1
  /\ last.outcome = Raise("ValidationException")

\* C7: invoke_lambda passes invocation_type through and, in every accepted mode in
\* which the invoke request succeeds, returns the decoded payload; it raises only
\* when the request fails.
C7_InvokeEveryMode ==
  last.tool = "lambda_invoke" =>
    /\ last.requests[1].InvocationType
         = Bind(last.kwargs, lambda_invoke_defaults, "invocation_type")
    /\ ServiceError(last.requests[1], last.env) = "none" => last.outcome.kind = "return"
    /\ last.outcome.kind = "raise" => ServiceError(last.requests[1], last.env) # "none"

\* the names of the first page of the listing
FirstPageNames ==
  [i \in 1..(IF Len(functions) < PageSize THEN Len(functions) ELSE PageSize) |->
     functions[i].FunctionName]

\* C8: list_lambdas issues a single list request, for the first page, and returns
\* exactly that page's function names, in order, as plain strings; functions past
\* the first page are absent from the result.
C8_ListFirstPage ==
  last.tool = "lambda_list" =>
    /\ last.requests = <<[op |-> "list_functions", Marker |-> 0]>>
    /\ last.env = "none" =>
         /\ last.outcome = Return(FirstPageNames)
         /\ \A i \in 1..Len(functions) :
              i > PageSize =>
                \A j \in 1..Len(last.outcome.value) :
                  last.outcome.value[j] # functions[i].FunctionName

C8_Witness ==
  /\ last.tool = "lambda_list"
  /\ last.env = "none"
  /\ Len(functions) > PageSize
  /\ last.outcome = Return(<<"f1", "f2">>)

\* what the tool's adapter, called directly with the caller's arguments and its own
\* defaults, does
Direct(tool, kwargs, env) ==
  CASE tool = "lambda_invoke" ->
         invoke_lambda(kwargs.function_name, kwargs.payload,
                       Bind(kwargs, invoke_lambda_defaults, "invocation_type"), env)
    [] tool = "lambda_get_code" -> get_lambda_code(kwargs.function_name, env)
    [] tool = "lambda_list" -> list_lambdas(env)
    [] tool = "dynamodb_create" -> create_item(kwargs.table_name, kwargs.item, env)
    [] tool = "dynamodb_read" -> read_item(kwargs.table_name, kwargs.key, env)
    [] tool = "dynamodb_update" ->
         update_item(kwargs.table_name, kwargs.key, kwargs.updates, env)
    [] tool = "dynamodb_query" ->
         query_items(kwargs.table_name, kwargs.key_condition, kwargs.expr_attr_values, env)
    [] tool = "api_execute" ->
         execute_api(kwargs.api_url,
                     Bind(kwargs, execute_api_defaults, "method"),
                     Bind(kwargs, execute_api_defaults, "headers"),
                     Bind(kwargs, execute_api_defaults, "params"),
                     Bind(kwargs, execute_api_defaults, "body"), env)

\* C9: the function name, table name, key and URL that reach the service are the
\* caller's, and the request a tool issues is the one its adapter issues when called
\* directly with the caller's arguments and the adapter's own defaults.
C9_ArgumentsPassThrough ==
  last.tool # "none" =>
    LET req == last.requests[1]
        kw == last.kwargs
    IN  /\ last.requests = Direct(last.tool, kw, last.env).requests
        /\ last.tool \in {"lambda_invoke", "lambda_get_code"}
             => req.FunctionName = kw.function_name
        /\ last.tool \in {"dynamodb_create", "dynamodb_read", "dynamodb_update",
                          "dynamodb_query"}
             => req.TableName = kw.table_name
        /\ last.tool \in {"dynamodb_read", "dynamodb_update"} => req.Key = kw.key
        /\ last.tool = "dynamodb_create" => req.Item = kw.item
        /\ last.tool = "api_execute" => req.url = kw.api_url

C9_Witness ==
  /\ last.tool = "api_execute"
  /\ DOMAIN last.kwargs = {"api_url", "headers", "params"}
  /\ last.requests[1].method = "GET"
  /\ last.requests[1].headers = Headers
  /\ last.requests[1].params = Params
  /\ last.requests[1].json = None
  /\ last.requests[1].url = "https://api/b"

\* C10: with an empty updates mapping update_item still issues its one request,
\* with the expression "SET " and no bound values, and returns its confirmation
\* only if the service accepts that request.
C10_EmptyUpdates ==
  (last.tool = "dynamodb_update" /\ last.kwargs.updates = << >>) =>
    /\ Len(last.requests) = 1
    /\ UpdateRequest.op = "update_item"
    /\ UpdateRequest.UpdateExpression = <<"S", "E", "T", " ">>
    /\ UpdateRequest.ExpressionAttributeValues = << >>
    /\ last.outcome.kind = "return" <=> ServiceError(UpdateRequest, last.env) = "none"

C10_Witness ==
  /\ last.tool = "dynamodb_update"
  /\ last.kwargs.updates = << >>
  /\ last.env = "none"
  /\ UpdateRequest.UpdateExpression = <<"S", "E", "T", " ">>
  /\ last.outcome = Raise("ValidationException")

====
